---- MODULE Spec2Model ----
(***************************************************************************)
(* A model of download_classroom_files.py: the folder namer, the link      *)
(* decoder, the file downloader and the orchestrator (main).               *)
(*                                                                         *)
(* Python strings are sequences of one-character strings, so that strip,   *)
(* re.sub, re.match, str.replace and os.path.join are computed character   *)
(* by character.  The file system is a set of directories and a map from   *)
(* resolved paths to file contents.                                        *)
(***************************************************************************)
EXTENDS Integers, Sequences, FiniteSets, TLC

VARIABLES
    call,        \* harness of the pure functions: inputs, result, position
    pc,          \* position of main / download_file
    run,         \* number of the current run of the tool in this directory
    exitcode,    \* -1 while running, 0 normal termination, 1 sys.exit(1)
    exc,         \* the exception main caught: its type, the line that raised
    msg,         \* last message of main to the user
    token,       \* token.json: "absent", "valid" or "expired"
    output_dir,  \* main: the output root (a path string), <<>> before it is set
    dirs,        \* file system: resolved paths of the directories
    files,       \* file system: resolved path -> content
    listed,      \* listings requested in this run
    gn,          \* number of groups in the current listing
    gi,          \* number of groups of the current listing already entered
    group,       \* the announcement / coursework material being processed
    idx,         \* number of materials of group already handled
    folder_dir,  \* main: folder_dir
    df,          \* locals and outcome of the last download_file call
    snapshot     \* files as they were when the current run started

vars == <<call, pc, run, exitcode, exc, msg, token, output_dir, dirs, files,
          listed, gn, gi, group, idx, folder_dir, df, snapshot>>

(***************************************************************************)
(* Bounds of the model.                                                    *)
(***************************************************************************)
MaxTitleLen == 3
MaxNameLen == 3
MaxGroups == 1
MaxMaterials == 2
MaxRuns == 2

(***************************************************************************)
(* Python values and string primitives.                                    *)
(***************************************************************************)
None == <<"None">>

Whitespace == {" ", "\t"}

Digits == {"0", "1", "2", "3", "4", "5", "6", "7", "8", "9"}

\* the character class of re.sub(r'[<>:"/\\|?*]', ...)
IllegalChars == {"<", ">", ":", "\"", "/", "\\", "|", "?", "*"}

RECURSIVE LStrip(_)
LStrip(s) ==
    IF s # <<>> /\ Head(s) \in Whitespace THEN LStrip(Tail(s)) ELSE s

RECURSIVE RStrip(_)
RStrip(s) ==
    IF s # <<>> /\ s[Len(s)] \in Whitespace
    THEN RStrip(SubSeq(s, 1, Len(s) - 1))
    ELSE s

\* str.strip()
Strip(s) == RStrip(LStrip(s))

\* SanitizeTitle with white space replaced as well
SanitizeTitleAndSpaces(s) ==
    [i \in 1..Len(s) |->
        IF s[i] \in IllegalChars \cup Whitespace THEN "_" ELSE s[i]]

\* re.sub(r'[<>:"/\\|?*]', '_', s)
SanitizeTitle(s) ==
    [i \in 1..Len(s) |-> IF s[i] \in IllegalChars THEN "_" ELSE s[i]]

\* the length of the longest prefix of s made of digits
RECURSIVE DigitPrefixLen(_)
DigitPrefixLen(s) ==
    IF s # <<>> /\ Head(s) \in Digits THEN 1 + DigitPrefixLen(Tail(s)) ELSE 0

\* re.match(r'^(\d+)\.', s): group(1), or None when there is no match
MatchModule(s) ==
    LET n == DigitPrefixLen(s) IN
    IF n >= 1 /\ Len(s) > n /\ s[n + 1] = "."
    THEN SubSeq(s, 1, n)
    ELSE None

ModulePrefix == <<"M", "o", "d", "u", "l", "e", " ">>

OtherMaterials ==
    <<"O", "t", "h", "e", "r", "_", "M", "a", "t", "e", "r", "i", "a", "l", "s">>

\* get_folder_name_from_title with the title tested and used untrimmed
get_folder_name_untrimmed(parent_title, file_name) ==
    IF parent_title # None /\ parent_title # <<>>
    THEN SanitizeTitle(parent_title)
    ELSE IF file_name # None /\ file_name # <<>> /\ Strip(file_name) # <<>>
              /\ MatchModule(Strip(file_name)) # None
         THEN ModulePrefix \o MatchModule(Strip(file_name))
         ELSE OtherMaterials

get_folder_name_from_title(parent_title, file_name) ==
    IF parent_title # None /\ Strip(parent_title) # <<>>
    THEN SanitizeTitle(Strip(parent_title))
    ELSE IF file_name # None /\ file_name # <<>> /\ Strip(file_name) # <<>>
              /\ MatchModule(Strip(file_name)) # None
         THEN ModulePrefix \o MatchModule(Strip(file_name))
         ELSE OtherMaterials

(***************************************************************************)
(* Link decoder.                                                           *)
(***************************************************************************)
\* the standard base64 alphabet without '+' and '/', which the pattern of
\* extract_course_id never captures
B64Chars ==
    <<"A", "B", "C", "D", "E", "F", "G", "H", "I", "J", "K", "L", "M",
      "N", "O", "P", "Q", "R", "S", "T", "U", "V", "W", "X", "Y", "Z",
      "a", "b", "c", "d", "e", "f", "g", "h", "i", "j", "k", "l", "m",
      "n", "o", "p", "q", "r", "s", "t", "u", "v", "w", "x", "y", "z",
      "0", "1", "2", "3", "4", "5", "6", "7", "8", "9">>

B64Set == {B64Chars[i] : i \in 1..Len(B64Chars)}

\* the character class [A-Za-z0-9_-]
SegmentChars == B64Set \cup {"_", "-"}

B64Value(c) == (CHOOSE i \in 1..Len(B64Chars) : B64Chars[i] = c) - 1

RECURSIVE SegmentLen(_)
SegmentLen(s) ==
    IF s # <<>> /\ Head(s) \in SegmentChars THEN 1 + SegmentLen(Tail(s)) ELSE 0

\* re.search(r"/c/([A-Za-z0-9_-]+)", link): group(1) of the leftmost match,
\* or None
SearchSegment(link) ==
    LET starts == {i \in 1..Len(link) :
                      /\ i + 3 <= Len(link)
                      /\ link[i] = "/" /\ link[i + 1] = "c" /\ link[i + 2] = "/"
                      /\ link[i + 3] \in SegmentChars}
    IN  IF starts = {}
        THEN None
        ELSE LET i == CHOOSE j \in starts : \A k \in starts : j <= k
                 rest == SubSeq(link, i + 3, Len(link))
             IN  SubSeq(rest, 1, SegmentLen(rest))

RECURSIVE Filter64(_)
Filter64(s) ==
    IF s = <<>> THEN <<>>
    ELSE IF Head(s) \in B64Set THEN <<Head(s)>> \o Filter64(Tail(s))
    ELSE Filter64(Tail(s))

RECURSIVE QuadBytes(_)
QuadBytes(s) ==
    IF Len(s) < 4 THEN <<>>
    ELSE LET a == B64Value(s[1])
             b == B64Value(s[2])
             c == B64Value(s[3])
             d == B64Value(s[4])
         IN  <<a * 4 + b \div 16, (b % 16) * 16 + c \div 4, (c % 4) * 64 + d>>
             \o QuadBytes(SubSeq(s, 5, Len(s)))

\* a value no byte string equals: the call raised
Raised == <<-1>>

\* base64.b64decode(s) without validation: characters outside the alphabet
\* are discarded; Raised stands for binascii.Error (incomplete last quad)
B64Decode(s) ==
    LET t == Filter64(s) IN
    IF Len(t) % 4 # 0 THEN Raised ELSE QuadBytes(t)

IsCont(b) == b >= 128 /\ b <= 191

\* bytes.decode("utf-8") succeeds
RECURSIVE ValidUtf8(_)
ValidUtf8(b) ==
    IF b = <<>> THEN TRUE
    ELSE IF b[1] < 128 THEN ValidUtf8(Tail(b))
    ELSE IF b[1] >= 194 /\ b[1] <= 223
         THEN Len(b) >= 2 /\ IsCont(b[2]) /\ ValidUtf8(SubSeq(b, 3, Len(b)))
    ELSE IF b[1] >= 224 /\ b[1] <= 239
         THEN /\ Len(b) >= 3 /\ IsCont(b[2]) /\ IsCont(b[3])
              /\ (b[1] = 224 => b[2] >= 160)
              /\ (b[1] = 237 => b[2] <= 159)
              /\ ValidUtf8(SubSeq(b, 4, Len(b)))
    ELSE IF b[1] >= 240 /\ b[1] <= 244
         THEN /\ Len(b) >= 4 /\ IsCont(b[2]) /\ IsCont(b[3]) /\ IsCont(b[4])
              /\ (b[1] = 240 => b[2] >= 144)
              /\ (b[1] = 244 => b[2] <= 143)
              /\ ValidUtf8(SubSeq(b, 5, Len(b)))
    ELSE FALSE

\* the decoded identifier as its UTF-8 bytes, or Raised (ValueError)
extract_course_id(classroom_link) ==
    LET encoded_id == SearchSegment(classroom_link) IN
    IF encoded_id = None THEN Raised
    ELSE LET bytes == B64Decode(encoded_id) IN
         IF bytes = Raised \/ ~ValidUtf8(bytes) THEN Raised ELSE bytes

(***************************************************************************)
(* Paths and the file system.                                              *)
(***************************************************************************)
\* os.path.join(a, b) on POSIX
Join(a, b) ==
    IF b # <<>> /\ b[1] = "/" THEN b
    ELSE IF a = <<>> \/ a[Len(a)] = "/" THEN a \o b
    ELSE a \o <<"/">> \o b

\* the components of s from position start on, split at '/'; i scans s
RECURSIVE SplitFrom(_, _, _)
SplitFrom(s, start, i) ==
    IF i > Len(s) THEN <<SubSeq(s, start, Len(s))>>
    ELSE IF s[i] = "/"
         THEN <<SubSeq(s, start, i - 1)>> \o SplitFrom(s, i + 1, i + 1)
    ELSE SplitFrom(s, start, i + 1)

\* the components of a path string
Split(s) == SplitFrom(s, 1, 1)

Dot == <<".">>
DotDot == <<".", ".">>

RECURSIVE Normalize(_, _)
Normalize(comps, acc) ==
    IF comps = <<>> THEN acc
    ELSE IF Head(comps) = <<>> \/ Head(comps) = Dot
         THEN Normalize(Tail(comps), acc)
    ELSE IF Head(comps) = DotDot
         THEN Normalize(Tail(comps),
                        IF acc = <<>> THEN acc ELSE SubSeq(acc, 1, Len(acc) - 1))
    ELSE Normalize(Tail(comps), Append(acc, Head(comps)))

\* the place an absolute path string names: its components from the root,
\* as the kernel resolves them ('.' and '..' followed, no symbolic links)
Resolve(p) == Normalize(Split(p), <<>>)

Ancestors(r) == {SubSeq(r, 1, k) : k \in 0..Len(r)}

\* os.getcwd()
Cwd == <<"/", "w">>

\* the kernel can walk p: every directory named on the way exists
Walkable(p) ==
    LET comps == Split(p) IN
    \A k \in 0..(Len(comps) - 1) : Normalize(SubSeq(comps, 1, k), <<>>) \in dirs

\* os.path.isdir(p) in the place of os.path.exists(p)
ExistsAsDirectory(p) == Walkable(p) /\ Resolve(p) \in dirs

\* os.path.exists(p)
Exists(p) ==
    Walkable(p) /\ (Resolve(p) \in dirs \/ Resolve(p) \in DOMAIN files)

\* os.makedirs(p, exist_ok=True) cannot succeed: a file is in the way
MakedirsBlocked(p) == \E a \in Ancestors(Resolve(p)) : a \in DOMAIN files

\* the directories after a successful os.makedirs(p, exist_ok=True)
Makedirs(p) == dirs \cup Ancestors(Resolve(p))

\* open(p, 'wb') cannot succeed: no parent directory, or p is a directory
OpenBlocked(p) == ~Walkable(p) \/ Resolve(p) \in dirs

(***************************************************************************)
(* What the remote service and the user can supply.                        *)
(***************************************************************************)
\* links the user may enter
Links ==
    { <<"x", "/", "c", "/", "Q", "U", "J", "D">>,        \* "ABC"
      <<"x", "/", "c", "/", "w", "6", "l", "B", "?">>,   \* two-byte character
      <<"x", "/", "d", "/", "Q", "U", "J", "D">>,        \* no /c/ segment
      <<"x", "/", "c", "/", "Q", "U", "J">>,             \* incomplete quad
      <<"x", "/", "c", "/", "g", "I", "C", "A">> }       \* not UTF-8

\* display names of the course
CourseNames == { <<"A", " ", "/", "B">> }

\* a material: a Drive file (with its id and optional title) or something else
DriveFiles ==
    { [drive |-> TRUE, id |-> <<"1">>, title |-> <<"1", ".", "a">>],
      [drive |-> TRUE, id |-> <<"3">>,
       title |-> <<".", ".", "/", ".", ".", "/", "x">>] }

OtherMaterial == [drive |-> FALSE, id |-> <<>>, title |-> None]

Materials == DriveFiles \cup {OtherMaterial}

\* the 'title' of a group: None when the key is absent
GroupTitles == { None, <<" ">>, <<"W", ":">> }

\* a group as main reads it: whether it has the key 'materials', its title,
\* the number of its materials and the first of them; the later materials
\* are drawn when the loop reaches them
NoGroup ==
    [has_materials |-> FALSE, title |-> None, n |-> 0, first |-> OtherMaterial]

Groups ==
    {NoGroup} \cup
    { [has_materials |-> TRUE, title |-> t, n |-> n, first |-> m] :
        t \in GroupTitles, n \in 1..MaxMaterials, m \in Materials } \cup
    { [has_materials |-> TRUE, title |-> t, n |-> 0, first |-> OtherMaterial] :
        t \in GroupTitles }

\* the number of chunks in which the file service delivers a file
RemoteChunks(file_id) == IF file_id = <<"1">> THEN 2 ELSE 1

(***************************************************************************)
(* Helpers of main.                                                        *)
(***************************************************************************)
\* course['name'].replace(' ', '_').replace('/', '_')
SanitizeCourse(name) ==
    [i \in 1..Len(name) |-> IF name[i] \in {" ", "/"} THEN "_" ELSE name[i]]

\* file.get('title', f"file_{file_id}")
FileName(m) ==
    IF m.title = None THEN <<"f", "i", "l", "e", "_">> \o m.id ELSE m.title

\* g.get('title', '')
TitleOf(g) == IF g.title = None THEN <<>> ELSE g.title

\* first_file_name of a group that has the key 'materials'
FirstFileName(g) ==
    IF g.n > 0 /\ g.first.drive THEN FileName(g.first) ELSE <<>>

\* folder_dir as computed when a group is entered
GroupFolder(g) ==
    Join(output_dir, get_folder_name_from_title(TitleOf(g), FirstFileName(g)))

\* ItemFolder without the recomputation: the folder of the group
ItemFolderOfGroup(g, file_name) == GroupFolder(g)

\* folder_dir as recomputed for one file of a coursework material
ItemFolder(g, file_name) ==
    IF Strip(TitleOf(g)) # <<>>
    THEN Join(output_dir, get_folder_name_from_title(TitleOf(g), <<>>))
    ELSE Join(output_dir, get_folder_name_from_title(None, file_name))

NoExc == [type |-> "None", line |-> 0]

NoCall ==
    [file_id |-> <<>>, file_name |-> <<>>, output_dir |-> <<>>,
     file_path |-> None, sent |-> 0, status |-> "none", ret |-> "none"]

IdleCall ==
    [pc |-> "idle", parent_title |-> None, file_name |-> None,
     folder_name |-> None]

\* TopLevelExcept with the exception raised again: the interpreter exits 1
TopLevelReraise(type, line) ==
    /\ pc' = "exited"
    /\ exc' = [type |-> type, line |-> line]
    /\ msg' = "An error occurred"
    /\ exitcode' = 1

\* an exception leaves main through "except Exception" (lines 196-197)
TopLevelExcept(type, line) ==
    /\ pc' = "exited"
    /\ exc' = [type |-> type, line |-> line]
    /\ msg' = "An error occurred"
    /\ exitcode' = 0

\* the outcomes of os.makedirs(p, exist_ok=True)
MakedirsOutcomes(p) ==
    IF MakedirsBlocked(p) THEN {"FileExistsError"} ELSE {"ok", "PermissionError"}

(***************************************************************************)
(* main, one action per step.                                              *)
(***************************************************************************)
Init ==
    /\ call = IdleCall
    /\ pc = "start"
    /\ run = 1
    /\ exitcode = -1
    /\ exc = NoExc
    /\ msg = ""
    /\ token \in {"absent", "valid", "expired"}
    /\ output_dir = <<>>
    /\ dirs = Ancestors(Resolve(Cwd))
    /\ files = <<>>
    /\ listed = {}
    /\ gn = 0
    /\ gi = 0
    /\ group = NoGroup
    /\ idx = 0
    /\ folder_dir = <<>>
    /\ df = NoCall
    /\ snapshot = <<>>

InstallPrerequisites ==
    /\ pc = "start"
    /\ \/ /\ pc' = "auth"
          /\ UNCHANGED <<exitcode, msg>>
       \/ /\ pc' = "exited"
          /\ exitcode' = 1
          /\ msg' = "Error: pip is not found"
    /\ UNCHANGED <<call, run, exc, token, output_dir, dirs, files, listed, gn,
                   gi, group, idx, folder_dir, df, snapshot>>

Authenticate ==
    /\ pc = "auth"
    /\ IF token = "valid"
       THEN /\ pc' = "input"
            /\ UNCHANGED <<token, exc, msg, exitcode>>
       ELSE IF token = "expired"
       THEN \/ /\ token' = "valid"
               /\ pc' = "input"
               /\ UNCHANGED <<exc, msg, exitcode>>
            \/ /\ TopLevelExcept("RefreshError", 73)
               /\ UNCHANGED token
       ELSE \E credentials \in BOOLEAN :    \* os.path.exists('credentials.json')
               IF ~credentials
               THEN /\ TopLevelExcept("FileNotFoundError", 76)
                    /\ UNCHANGED token
               ELSE \/ /\ token' = "valid"
                       /\ pc' = "input"
                       /\ UNCHANGED <<exc, msg, exitcode>>
                    \/ /\ TopLevelExcept("AuthError", 78)
                       /\ UNCHANGED token
    /\ UNCHANGED <<call, run, output_dir, dirs, files, listed, gn, gi, group,
                   idx, folder_dir, df, snapshot>>

ResolveLink ==
    /\ pc = "input"
    /\ \E classroom_link \in Links :
          IF extract_course_id(classroom_link) = Raised
          THEN TopLevelExcept("ValueError",
                              IF SearchSegment(classroom_link) = None
                              THEN 58 ELSE 64)
          ELSE /\ pc' = "course"
               /\ UNCHANGED <<exc, msg, exitcode>>
    /\ UNCHANGED <<call, run, token, output_dir, dirs, files, listed, gn, gi,
                   group, idx, folder_dir, df, snapshot>>

\* FetchCourse without the return of line 148: the run goes on under a
\* default name
FetchCourseNoReturn ==
    /\ pc = "course"
    /\ \E failed \in BOOLEAN, name \in CourseNames :
          LET root == Join(Cwd, SanitizeCourse(name)) IN
          /\ output_dir' = root
          /\ dirs' = Makedirs(root)
          /\ pc' = "list_announcements"
          /\ exc' = IF failed THEN [type |-> "HttpError", line |-> 144] ELSE exc
          /\ msg' = IF failed THEN "Error accessing course" ELSE msg
          /\ UNCHANGED exitcode
    /\ UNCHANGED <<call, run, token, files, listed, gn, gi, group, idx,
                   folder_dir, df, snapshot>>

\* lines 143-152
FetchCourse ==
    /\ pc = "course"
    /\ \/ /\ pc' = "exited"
          /\ exc' = [type |-> "HttpError", line |-> 144]
          /\ msg' = "Error accessing course"
          /\ exitcode' = 0
          /\ UNCHANGED <<output_dir, dirs>>
       \/ \E name \in CourseNames :
             LET root == Join(Cwd, SanitizeCourse(name)) IN
             /\ output_dir' = root
             /\ \E o \in MakedirsOutcomes(root) :
                   IF o = "ok"
                   THEN /\ dirs' = Makedirs(root)
                        /\ pc' = "list_announcements"
                        /\ UNCHANGED <<exc, msg, exitcode>>
                   ELSE /\ TopLevelExcept(o, 152)
                        /\ UNCHANGED dirs
    /\ UNCHANGED <<call, run, token, files, listed, gn, gi, group, idx,
                   folder_dir, df, snapshot>>

\* a listing request: its failure, or the number of groups it returns
List(here, kind, line, next) ==
    /\ pc = here
    /\ listed' = listed \cup {kind}
    /\ \/ /\ TopLevelExcept("HttpError", line)
          /\ UNCHANGED <<gn, gi>>
       \/ /\ gn' \in 0..MaxGroups
          /\ gi' = 0
          /\ pc' = next
          /\ UNCHANGED <<exc, msg, exitcode>>
    /\ UNCHANGED <<call, run, token, output_dir, dirs, files, group, idx,
                   folder_dir, df, snapshot>>

ListAnnouncements ==
    List("list_announcements", "announcements", 155, "announcement_loop")

ListMaterials ==
    List("list_materials", "materials", 172, "material_loop")

\* the head of "for g in <listing>": the next group and its folder
NextGroup(here, line, items) ==
    /\ pc = here
    /\ gi < gn
    /\ gi' = gi + 1
    /\ \E g \in Groups :
          /\ group' = g
          /\ idx' = 0
          /\ IF ~g.has_materials
             THEN UNCHANGED <<pc, exc, msg, exitcode, dirs, folder_dir>>
             ELSE LET dir == GroupFolder(g) IN
                  \E o \in MakedirsOutcomes(dir) :
                     IF o = "ok"
                     THEN /\ folder_dir' = dir
                          /\ dirs' = Makedirs(dir)
                          /\ pc' = items
                          /\ UNCHANGED <<exc, msg, exitcode>>
                     ELSE /\ TopLevelExcept(o, line)
                          /\ UNCHANGED <<dirs, folder_dir>>
    /\ UNCHANGED <<call, run, token, output_dir, files, listed, gn, df,
                   snapshot>>

NextAnnouncement == NextGroup("announcement_loop", 163, "announcement_items")

NextMaterial == NextGroup("material_loop", 180, "material_items")

AnnouncementsDone ==
    /\ pc = "announcement_loop"
    /\ gi = gn
    /\ pc' = "list_materials"
    /\ UNCHANGED <<call, run, exitcode, exc, msg, token, output_dir, dirs,
                   files, listed, gn, gi, group, idx, folder_dir, df, snapshot>>

\* line 194: the run completes
MaterialsDone ==
    /\ pc = "material_loop"
    /\ gi = gn
    /\ pc' = "exited"
    /\ msg' = "All files downloaded"
    /\ exitcode' = 0
    /\ UNCHANGED <<call, run, exc, token, output_dir, dirs, files, listed, gn,
                   gi, group, idx, folder_dir, df, snapshot>>

\* the materials the loop over a group may find at position idx + 1
NextItems == IF idx = 0 THEN {group.first} ELSE Materials

\* entry of download_file(file_id, file_name, drive_service, output_dir)
Call(m, dir, ret) ==
    [file_id |-> m.id, file_name |-> FileName(m), output_dir |-> dir,
     file_path |-> None, sent |-> 0, status |-> "running", ret |-> ret]

\* "for material in announcement['materials']"
AnnouncementItem ==
    /\ pc = "announcement_items"
    /\ IF idx = group.n
       THEN /\ pc' = "announcement_loop"
            /\ UNCHANGED <<idx, df>>
       ELSE \E m \in NextItems :
            /\ idx' = idx + 1
            /\ IF m.drive
               THEN /\ df' = Call(m, folder_dir, "announcement_items")
                    /\ pc' = "df_makedirs"
               ELSE UNCHANGED <<pc, df>>
    /\ UNCHANGED <<call, run, exitcode, exc, msg, token, output_dir, dirs,
                   files, listed, gn, gi, group, folder_dir, snapshot>>

\* "for item in material['materials']": the folder is computed again
MaterialItem ==
    /\ pc = "material_items"
    /\ IF idx = group.n
       THEN /\ pc' = "material_loop"
            /\ UNCHANGED <<idx, df, folder_dir, dirs, exc, msg, exitcode>>
       ELSE \E m \in NextItems :
            /\ idx' = idx + 1
            /\ IF m.drive
               THEN LET dir == ItemFolder(group, FileName(m)) IN
                    /\ folder_dir' = dir
                    /\ \E o \in MakedirsOutcomes(dir) :
                          IF o = "ok"
                          THEN /\ dirs' = Makedirs(dir)
                               /\ df' = Call(m, dir, "material_items")
                               /\ pc' = "df_makedirs"
                               /\ UNCHANGED <<exc, msg, exitcode>>
                          ELSE /\ TopLevelExcept(o, 191)
                               /\ UNCHANGED <<dirs, df>>
               ELSE UNCHANGED <<pc, df, folder_dir, dirs, exc, msg, exitcode>>
    /\ UNCHANGED <<call, run, token, output_dir, files, listed, gn, gi, group,
                   snapshot>>

(***************************************************************************)
(* download_file, one action per step.                                     *)
(***************************************************************************)
\* the three except clauses of download_file: the first two print file_path,
\* which is unbound until line 91 has run
Handler(type) ==
    IF type \in {"PermissionError", "OSError"} /\ df.file_path = None
    THEN /\ TopLevelExcept("UnboundLocalError",
                           IF type = "PermissionError" THEN 106 ELSE 108)
         /\ df' = [df EXCEPT !.status = type]
    ELSE /\ pc' = df.ret
         /\ df' = [df EXCEPT !.status = type]
         /\ UNCHANGED <<exc, msg, exitcode>>

\* lines 87-89
DfMakedirs ==
    /\ pc = "df_makedirs"
    /\ \E o \in MakedirsOutcomes(df.output_dir) :
          IF o = "ok"
          THEN /\ dirs' = Makedirs(df.output_dir)
               /\ pc' = "df_exists"
               /\ UNCHANGED <<df, exc, msg, exitcode>>
          ELSE /\ Handler(IF o = "PermissionError" THEN o ELSE "OSError")
               /\ UNCHANGED dirs
    /\ UNCHANGED <<call, run, token, output_dir, files, listed, gn, gi, group,
                   idx, folder_dir, snapshot>>

\* lines 91-95
DfExists ==
    /\ pc = "df_exists"
    /\ LET file_path == Join(df.output_dir, df.file_name) IN
       IF Exists(file_path)
       THEN /\ df' = [df EXCEPT !.file_path = file_path, !.status = "skipped"]
            /\ pc' = df.ret
       ELSE /\ df' = [df EXCEPT !.file_path = file_path]
            /\ pc' = "df_open"
    /\ UNCHANGED <<call, run, exitcode, exc, msg, token, output_dir, dirs,
                   files, listed, gn, gi, group, idx, folder_dir, snapshot>>

\* the file system after open(p, 'wb') has created (or truncated) p
Opened(p, file_id) ==
    (Resolve(p) :> [id |-> file_id, chunks |-> 0]) @@ files

\* lines 97-100: the request object is built, the destination opened
DfOpen ==
    /\ pc = "df_open"
    /\ IF OpenBlocked(df.file_path)
       THEN /\ Handler("OSError")
            /\ UNCHANGED files
       ELSE \/ /\ files' = Opened(df.file_path, df.file_id)
               /\ pc' = "df_chunk"
               /\ UNCHANGED <<df, exc, msg, exitcode>>
            \/ /\ Handler("PermissionError")
               /\ UNCHANGED files
    /\ UNCHANGED <<call, run, token, output_dir, dirs, listed, gn, gi, group,
                   idx, folder_dir, snapshot>>

\* DfChunk with the partial file removed when a chunk fails
DfChunkCleanup ==
    /\ pc = "df_chunk"
    /\ LET r == Resolve(df.file_path)
           n == files[r].chunks + 1
       IN  \/ /\ files' = [files EXCEPT ![r].chunks = n]
              /\ IF n = RemoteChunks(df.file_id)
                 THEN /\ df' = [df EXCEPT !.sent = @ + 1, !.status = "downloaded"]
                      /\ pc' = df.ret
                 ELSE /\ df' = [df EXCEPT !.sent = @ + 1]
                      /\ UNCHANGED pc
              /\ UNCHANGED <<exc, msg, exitcode>>
           \/ /\ Handler("Exception")
              /\ files' = [q \in DOMAIN files \ {r} |-> files[q]]
    /\ UNCHANGED <<call, run, token, output_dir, dirs, listed, gn, gi, group,
                   idx, folder_dir, snapshot>>

\* lines 101-104: one downloader.next_chunk(), which requests the next part
\* of the content and writes it, or raises
DfChunk ==
    /\ pc = "df_chunk"
    /\ LET r == Resolve(df.file_path)
           n == files[r].chunks + 1
       IN  \/ /\ files' = [files EXCEPT ![r].chunks = n]
              /\ IF n = RemoteChunks(df.file_id)
                 THEN /\ df' = [df EXCEPT !.sent = @ + 1, !.status = "downloaded"]
                      /\ pc' = df.ret
                 ELSE /\ df' = [df EXCEPT !.sent = @ + 1]
                      /\ UNCHANGED pc
              /\ UNCHANGED <<exc, msg, exitcode>>
           \/ /\ Handler("Exception")
              /\ UNCHANGED files
    /\ UNCHANGED <<call, run, token, output_dir, dirs, listed, gn, gi, group,
                   idx, folder_dir, snapshot>>

\* the tool is started again in the same working directory
Restart ==
    /\ pc = "exited"
    /\ run < MaxRuns
    /\ run' = run + 1
    /\ pc' = "start"
    /\ exitcode' = -1
    /\ exc' = NoExc
    /\ msg' = ""
    /\ output_dir' = <<>>
    /\ listed' = {}
    /\ gn' = 0
    /\ gi' = 0
    /\ group' = NoGroup
    /\ idx' = 0
    /\ folder_dir' = <<>>
    /\ df' = NoCall
    /\ snapshot' = files
    /\ UNCHANGED <<call, token, dirs, files>>

\* one run of the tool
NextRun ==
    \/ InstallPrerequisites
    \/ Authenticate
    \/ ResolveLink
    \/ FetchCourse
    \/ ListAnnouncements
    \/ NextAnnouncement
    \/ AnnouncementsDone
    \/ AnnouncementItem
    \/ ListMaterials
    \/ NextMaterial
    \/ MaterialsDone
    \/ MaterialItem
    \/ DfMakedirs
    \/ DfExists
    \/ DfOpen
    \/ DfChunk

SpecRun == Init /\ [][NextRun]_vars

\* runs of the tool, one after the other, in the same working directory
Next ==
    \/ NextRun
    \/ Restart

Spec == Init /\ [][Next]_vars

(***************************************************************************)
(* The folder namer on its own: every title and file name up to the        *)
(* bounds, over characters of each class the function tells apart.         *)
(***************************************************************************)
RECURSIVE SeqsUpTo(_, _)
SeqsUpTo(S, n) ==
    IF n = 0 THEN {<<>>}
    ELSE LET shorter == SeqsUpTo(S, n - 1) IN
         shorter \cup {Append(q, x) : q \in {r \in shorter : Len(r) = n - 1}, x \in S}

Week1Intro == <<"W", "e", "e", "k", " ", "1", ":", " ", "I", "n", "t", "r", "o">>

AllIllegal == <<"<", ">", ":", "\"", "/", "\\", "|", "?", "*">>

NamerTitles ==
    {None, Week1Intro, AllIllegal} \cup SeqsUpTo({" ", "a", ":", "/"}, MaxTitleLen)

NamerFiles ==
    {None, <<"3", ".", "2", " ", "S", ".", "p", "d", "f">>}
        \cup SeqsUpTo({" ", "7", ".", "a"}, MaxNameLen)

InitNamer ==
    /\ call \in [pc : {"call"}, parent_title : NamerTitles,
                 file_name : NamerFiles, folder_name : {None}]
    /\ pc = "none"
    /\ run = 1
    /\ exitcode = -1
    /\ exc = NoExc
    /\ msg = ""
    /\ token = "absent"
    /\ output_dir = <<>>
    /\ dirs = Ancestors(Resolve(Cwd))
    /\ files = <<>>
    /\ listed = {}
    /\ gn = 0
    /\ gi = 0
    /\ group = NoGroup
    /\ idx = 0
    /\ folder_dir = <<>>
    /\ df = NoCall
    /\ snapshot = <<>>

NamerCall ==
    /\ call.pc = "call"
    /\ call' = [call EXCEPT
                  !.folder_name =
                      get_folder_name_from_title(call.parent_title, call.file_name),
                  !.pc = "done"]
    /\ UNCHANGED <<pc, run, exitcode, exc, msg, token, output_dir, dirs, files,
                   listed, gn, gi, group, idx, folder_dir, df, snapshot>>

SpecNamer == InitNamer /\ [][NamerCall]_vars

(***************************************************************************)
(* Properties.                                                             *)
(***************************************************************************)
Incomplete(p) == files[p].chunks < RemoteChunks(files[p].id)

\* the destination the current download_file call computes at line 91
Dest == Resolve(Join(df.output_dir, df.file_name))

\* C1: a file already present at the destination is never requested again
\* nor overwritten: the existence check ends the call with no content
\* request and the file system unchanged, files appear only at destinations
\* that did not exist, and a later run leaves every file of the earlier run as
\* it found it.
C1_ExistingFileUntouched ==
    [][ /\ (pc = "df_exists" /\ Exists(Join(df.output_dir, df.file_name)))
            => (pc' = df.ret /\ files' = files /\ df'.sent = 0
                /\ df'.status = "skipped")
        /\ (DOMAIN files' # DOMAIN files)
            => (pc = "df_open" /\ Dest \notin DOMAIN files
                /\ DOMAIN files' = DOMAIN files \cup {Dest})
        /\ \A p \in DOMAIN snapshot :
              p \in DOMAIN files' /\ files'[p] = snapshot[p] ]_vars

\* a second run has called download_file for a file the first run left, and
\* the call has skipped it
C1_Witness ==
    /\ run = 2
    /\ df.status = "skipped"
    /\ df.file_path # None
    /\ Resolve(df.file_path) \in DOMAIN snapshot
    /\ files[Resolve(df.file_path)] = snapshot[Resolve(df.file_path)]

\* C2: per-file errors are isolated: whatever fails inside download_file,
\* no exception leaves it (lines 83-110), so none ends the run.
C2_PerFileErrorsIsolated ==
    ~(pc = "exited" /\ exc.line >= 83 /\ exc.line <= 110)

\* C3: a permission error while creating one group's folder does not prevent
\* the later groups from being processed: when the run has ended, both
\* listings have been requested and every group of them has been entered.
C3_LaterGroupsProcessed ==
    (pc = "exited" /\ exc.type = "PermissionError" /\ exc.line \in {163, 180, 191})
        => (listed = {"announcements", "materials"} /\ gi = gn)

\* C4: a link without /c/<encoded> segment (line 58), a segment that cannot
\* be decoded (line 64) and a failed course fetch (line 144) end the run with
\* a message, with no output root, no listing requested and no download.
C4_LinkAndCourseErrorsAbort ==
    exc.line \in {58, 64, 144}
        => /\ pc = "exited"
           /\ msg \in {"An error occurred", "Error accessing course"}
           /\ output_dir = <<>>
           /\ dirs = Ancestors(Resolve(Cwd))
           /\ files = <<>>
           /\ listed = {}
           /\ df = NoCall

C4_Witness ==
    /\ pc = "exited"
    /\ exc.type = "ValueError"
    /\ exc.line = 64

C6_FilesUnderGroupFolder ==
    \A p \in DOMAIN files :
        /\ Len(p) = Len(Resolve(Cwd)) + 3
        /\ SubSeq(p, 1, Len(Resolve(Cwd))) = Resolve(Cwd)
        /\ SubSeq(p, 1, Len(p) - 2) = Resolve(output_dir)

\* the characters the claim lists for rule (1)
ListedChars == {"<", ">", ":", "\"", "/", "\\", "|", "?", "*"}

Blank(c) == c \in {" ", "\t"}

\* the positions of the characters of s that are not white space
Solid(s) == {i \in 1..Len(s) : ~Blank(s[i])}

First(s) == CHOOSE i \in Solid(s) : \A j \in Solid(s) : i <= j

Last(s) == CHOOSE i \in Solid(s) : \A j \in Solid(s) : j <= i

\* r is s trimmed, with each listed character replaced by '_'
IsSanitizedTrim(r, s) ==
    /\ Len(r) = Last(s) - First(s) + 1
    /\ \A k \in 1..Len(r) :
          r[k] = IF s[First(s) + k - 1] \in ListedChars
                 THEN "_" ELSE s[First(s) + k - 1]

\* the trimmed s starts with d digits followed by a dot
LeadingDigits(s, d) ==
    /\ d >= 1
    /\ First(s) + d <= Len(s)
    /\ \A k \in 0..(d - 1) : s[First(s) + k] \in Digits
    /\ s[First(s) + d] = "."

\* C7: the three rules of the folder namer, in order, for every title and
\* file name.
C7_NamerRules ==
    call.pc = "done" =>
        LET t == call.parent_title
            f == call.file_name
            r == call.folder_name
        IN  IF t # None /\ Solid(t) # {}
            THEN IsSanitizedTrim(r, t)
            ELSE IF f # None /\ Solid(f) # {}
                    /\ \E d \in 1..Len(f) : LeadingDigits(f, d)
            THEN \E d \in 1..Len(f) :
                    /\ LeadingDigits(f, d)
                    /\ r = <<"M", "o", "d", "u", "l", "e", " ">>
                             \o SubSeq(f, First(f), First(f) + d - 1)
            ELSE r = <<"O", "t", "h", "e", "r", "_",
                       "M", "a", "t", "e", "r", "i", "a", "l", "s">>

\* rule (2) has applied to a file name with two digits before the dot, under
\* a title of white space only
C7_Witness ==
    /\ call.pc = "done"
    /\ call.parent_title = <<" ", " ">>
    /\ call.file_name = <<"7", "7", ".">>
    /\ call.folder_name = <<"M", "o", "d", "u", "l", "e", " ", "7", "7">>

\* C8 as stated: "Week 1: Intro" with an empty file name gives
\* "Week_1__Intro", with no space and no colon.
C8_SpacesReplaced ==
    (call.pc = "done" /\ call.parent_title = Week1Intro /\ call.file_name = <<>>)
        => call.folder_name =
             <<"W", "e", "e", "k", "_", "1", "_", "_", "I", "n", "t", "r", "o">>

\* C8 as amended: "Week 1: Intro" with an empty file name gives
\* "Week 1_ Intro": the colon is replaced by '_', the spaces are kept.
C8_ColonReplacedSpacesKept ==
    (call.pc = "done" /\ call.parent_title = Week1Intro /\ call.file_name = <<>>)
        => call.folder_name =
             <<"W", "e", "e", "k", " ", "1", "_", " ", "I", "n", "t", "r", "o">>

C8_Witness ==
    /\ call.pc = "done"
    /\ call.parent_title = Week1Intro
    /\ call.file_name = <<>>

\* C9: the folder a file is downloaded into.  A group whose title is not
\* empty after trimming: the sanitized title, for both kinds.  An untitled
\* announcement: the folder derived from the name of its first material.  An
\* untitled coursework material: the folder derived from the file's own name.
C9_FolderChoice ==
    pc = "df_makedirs" =>
        LET t == IF group.title = None THEN <<>> ELSE group.title
            titled == Solid(t) # {}
            own == df.file_name
            first == IF group.first.drive
                     THEN (IF group.first.title = None
                           THEN <<"f", "i", "l", "e", "_">> \o group.first.id
                           ELSE group.first.title)
                     ELSE <<>>
        IN  df.output_dir =
              Join(output_dir,
                   IF titled THEN SanitizeTitle(Strip(t))
                   ELSE IF df.ret = "announcement_items"
                        THEN get_folder_name_from_title(<<>>, first)
                        ELSE get_folder_name_from_title(<<>>, own))

\* the second file of an untitled coursework material goes to another
\* folder than the one derived from the first file
C9_Witness ==
    /\ pc = "df_makedirs"
    /\ df.ret = "material_items"
    /\ group.title = None
    /\ idx = 2
    /\ group.first.drive
    /\ df.output_dir # GroupFolder(group)

\* C10: a transfer that fails after the destination was opened leaves the
\* file with the chunks written so far; an incomplete file that is not being
\* written is never changed again, and a call that finds it skips it.
C10_FailedTransferStaysIncomplete ==
    [][ /\ (pc = "df_chunk" /\ df'.status = "Exception")
            => (/\ Dest \in DOMAIN files'
                /\ files'[Dest] = [id |-> df.file_id, chunks |-> df.sent]
                /\ df.sent < RemoteChunks(df.file_id)
                /\ pc' = df.ret)
        /\ \A p \in DOMAIN files :
              (Incomplete(p) /\ ~(pc = "df_chunk" /\ p = Dest))
                 => (p \in DOMAIN files' /\ files'[p] = files[p])
        /\ (pc = "df_exists" /\ Dest \in DOMAIN files /\ Incomplete(Dest))
            => (pc' = df.ret /\ df'.status = "skipped" /\ df'.sent = 0) ]_vars

\* a later run has called download_file for a file whose transfer failed
\* after the first of its two chunks, and the call has skipped it
C10_Witness ==
    /\ run = 2
    /\ df.status = "skipped"
    /\ df.file_path # None
    /\ Resolve(df.file_path) \in DOMAIN snapshot
    /\ files[Resolve(df.file_path)] = [id |-> <<"1">>, chunks |-> 1]

====
